---- MODULE Spec2Model ----
(***************************************************************************)
(* News-ingestion pipeline of apps/news/services.py: the three source      *)
(* adapters, the rule-based pre-filter, the AI classifier's response       *)
(* parsing, the per-company orchestrator fetch_and_store_news and the      *)
(* multi-company fan-out fetch_news_for_companies, over the CompanyNews    *)
(* table of apps/news/models.py.                                           *)
(*                                                                         *)
(* Text is modelled as sequences of word tokens, URLs as records of host   *)
(* labels and path segments, timestamps as naturals.                       *)
(***************************************************************************)
EXTENDS Integers, Sequences, FiniteSets, TLC

VARIABLES
    store,      \* the CompanyNews table: a set of rows, each with its own pk
    nextId,     \* the table's primary-key sequence
    runs,       \* per run slot: the locals of one fetch_and_store_news call
    batch,      \* the locals of one fetch_news_for_companies call
    clock,      \* timezone.now()
    hist,       \* per company: the inputs of its last completed run
    ad,         \* the adapter call under test (adapter-level specification)
    cl,         \* the classifier call under test (classifier-level specification)
    call        \* the call under test of the function-level specifications

vars == <<store, nextId, runs, batch, clock, hist, ad, cl, call>>

(***************************************************************************)
(* Bounds of the model.                                                    *)
(***************************************************************************)
MaxStarts == 2          \* runs started per behaviour of the sequential specification
MaxRespLen == 4         \* longest list the text-completion capability answers with
MaxFeedLen == 2         \* longest item list a remote feed answers with

(***************************************************************************)
(* Sequence helpers.                                                       *)
(***************************************************************************)
Range(s) == {s[i] : i \in 1..Len(s)}

RECURSIVE SeqSum(_)
SeqSum(s) == IF s = <<>> THEN 0 ELSE Head(s) + SeqSum(Tail(s))

\* t occurs in s as a contiguous run of tokens (Python's `t in s` on strings)
Contains(s, t) ==
    \E i \in 0..(Len(s) - Len(t)) : \A j \in 1..Len(t) : s[i + j] = t[j]

(***************************************************************************)
(* Strings: str.lower() on the tokens the model uses.                      *)
(***************************************************************************)
Lower(w) ==
    CASE w = "Acme" -> "acme"
      [] w = "ACME" -> "acme"
      [] w = "Corp" -> "corp"
      [] w = "Globex" -> "globex"
      [] w = "Globex," -> "globex,"
      [] w = "Widgets" -> "widgets"
      [] w = "Widgets," -> "widgets,"
      [] w = "Inc." -> "inc."
      [] w = "BP" -> "bp"
      [] w = "GLBX.T" -> "glbx.t"
      [] w = "Markets" -> "markets"
      [] w = "8-K:" -> "8-k:"
      [] w = "WWW" -> "www"
      [] w = "Reuters" -> "reuters"
      [] w = "StockAnalysis" -> "stockanalysis"
      [] w = "Wins" -> "wins"
      [] OTHER -> w

LowerSeq(s) == [i \in 1..Len(s) |-> Lower(s[i])]

\* len(word) >= 4 for the lowercase words of the model
ShortWords == {"bp", "the", "and", "for", "inc", "co", "se", "ag", "ab", "up"}
LenAtLeast4(w) == w \notin ShortWords

(***************************************************************************)
(* URLs.  A URL string is a record of its host labels and path segments;   *)
(* type "int" is a JSON value that is not a string.                        *)
(***************************************************************************)
Url(netloc, path) == [type |-> "str", netloc |-> netloc, path |-> path]
EmptyUrl == Url(<<>>, <<>>)
NonStrUrl == [type |-> "int", netloc |-> <<>>, path |-> <<>>]

UrlReuters == Url(<<"www", "reuters", "com">>, <<"acme-deal">>)
UrlWire    == Url(<<"wire", "com">>, <<"acme-q3">>)
UrlJunk    == Url(<<"stockanalysis", "com">>, <<"acme">>)
UrlBlack   == Url(<<"www", "badnews", "com">>, <<"acme">>)
UrlQuote   == Url(<<"finance", "example", "com">>, <<"quote", "ACME", "">>)
UrlSec     == Url(<<"www", "sec", "gov">>, <<"Archives", "acme-8k">>)
UrlGoogle  == Url(<<"news", "google", "com">>, <<"rss", "articles", "a1">>)
PubReuters == Url(<<"www", "reuters", "com">>, <<>>)
\* the netloc of a URL with an explicit port: 'stockanalysis.com:443'
UrlJunkPort == Url(<<"stockanalysis", "com:443">>, <<"acme-news">>)
UrlJunkWww  == Url(<<"WWW", "StockAnalysis", "com">>, <<"acme-news">>)
UrlBlackPort == Url(<<"badnews", "com:443">>, <<"acme">>)
\* the URL of UrlReuters with another spelling of the host
UrlReutersUpper == Url(<<"www", "Reuters", "com">>, <<"acme-deal">>)
UrlGoogleB == Url(<<"news", "google", "com">>, <<"rss", "articles", "b2">>)
PubBlack   == Url(<<"www", "badnews", "com">>, <<>>)

\* bool(url): a non-empty string, or a non-zero number
Truthy(url) == url.type = "int" \/ url.netloc # <<>> \/ url.path # <<>>

\* 'sec.gov' in url.lower()
HasSecGov(url) ==
    \/ \E i \in 1..(Len(url.netloc) - 1) :
           Lower(url.netloc[i]) = "sec" /\ Lower(url.netloc[i + 1]) = "gov"
    \/ \E i \in 1..Len(url.path) : Lower(url.path[i]) = "sec.gov"

RECURSIVE StripWww(_)
\* str.replace('www.', '') on a dotted host: every label "www" that a dot follows goes
StripWww(labels) ==
    IF Len(labels) <= 1 THEN labels
    ELSE IF Head(labels) = "www" THEN StripWww(Tail(labels))
         ELSE <<Head(labels)>> \o StripWww(Tail(labels))

\* _extract_domain: urlparse(url).netloc.lower().replace('www.', '')
_extract_domain(url) ==
    IF url.type # "str" THEN <<>> ELSE StripWww(LowerSeq(url.netloc))

_JUNK_DOMAINS == {
    <<"stockanalysis", "com">>, <<"tradingview", "com">>, <<"morningstar", "com">>,
    <<"tipranks", "com">>, <<"simplywall", "st">>, <<"macrotrends", "net">>,
    <<"wisesheets", "io">>, <<"dividendmax", "com">>, <<"finviz", "com">>,
    <<"chartmill", "com">> }

\* _JUNK_PATH_PATTERNS.search(url), case-insensitive, on the path segments:
\* '/quote[s]?/', '/symbol/', ... need a following '/', '/stock/quote' and
\* '/finance/quote' match a prefix of the next segment
JunkSegments == {"quote", "quotes", "symbol", "market-activity", "price-target",
                 "etf", "mutual-fund"}
_JUNK_PATH_PATTERNS(url) ==
    LET p == LowerSeq(url.path) IN
    \/ \E i \in 1..(Len(p) - 1) : p[i] \in JunkSegments
    \/ \E i \in 1..(Len(p) - 1) :
           /\ p[i] \in {"stock", "finance"}
           /\ p[i + 1] \in {"quote", "quotes"}
    \/ \E i \in 1..(Len(p) - 2) : p[i] = "investing" /\ p[i + 1] = "stock"

(***************************************************************************)
(* Companies and their tickers (apps/companies/models.py).                 *)
(***************************************************************************)
Ticker(symbol, exchange, primary) ==
    [symbol |-> symbol, exchange |-> exchange, is_primary |-> primary]
NoTicker == Ticker("", "", FALSE)

Acme   == [id |-> 1, name |-> <<"Acme", "Corp">>,
           tickers |-> <<Ticker("ACME", "NYSE", TRUE)>>]
Globex == [id |-> 2, name |-> <<"Globex", "Widgets,", "Inc.">>,
           tickers |-> <<Ticker("GLBX.T", "TSE", FALSE)>>]
BP     == [id |-> 3, name |-> <<"BP">>, tickers |-> <<>>]
\* a primary ticker whose exchange was left blank (CharField(blank=True))
Initech == [id |-> 4, name |-> <<"Initech">>,
            tickers |-> <<Ticker("INTC", "", TRUE)>>]
Companies == {Acme, Globex, BP, Initech}

\* Company.get_primary_ticker: the primary ticker, else the first, else None
get_primary_ticker(company) ==
    LET prim == SelectSeq(company.tickers, LAMBDA t : t.is_primary) IN
    IF prim # <<>> THEN Head(prim)
    ELSE IF company.tickers # <<>> THEN Head(company.tickers)
    ELSE NoTicker

\* sym.split('.')[0]
SymbolBase(sym) == CASE sym = "GLBX.T" -> "GLBX" [] sym = "glbx.t" -> "glbx" [] OTHER -> sym

(***************************************************************************)
(* _extract_common_names                                                   *)
(***************************************************************************)
\* the suffixes of _LEGAL_SUFFIXES that start with ", " and those that start with " "
CommaSuffixes == {"Inc.", "Inc", "LLC", "Ltd.", "Ltd", "PLC", "Plc"}
SpaceSuffixes == {"Inc.", "Inc", "LLC", "Ltd.", "Ltd", "PLC", "Plc", "Corporation",
                  "Corp.", "Corp", "Company", "Co.", "Co", "Incorporated", "Limited",
                  "Group", "Holdings", "N.V.", "N.V", "S.A.", "S.A", "SE", "AG",
                  "S.p.A.", "S.p.A", "Oyj", "ASA", "AB"}
_GENERIC_WORDS == {"the", "and", "for", "from", "with", "group", "holdings",
                   "international", "technologies", "systems", "services", "global",
                   "capital", "financial", "resources", "industries", "partners",
                   "management", "solutions", "enterprises"}

\* a token that ends with a comma, without the comma
EndsWithComma(w) == w \in {"Widgets,", "Globex,"}
DropComma(w) == CASE w = "Widgets," -> "Widgets" [] w = "Globex," -> "Globex" [] OTHER -> w

\* the first suffix of _LEGAL_SUFFIXES the name ends with is cut off, then strip()
StripLegalSuffix(name) ==
    LET n == Len(name) IN
    IF n < 2 THEN name
    ELSE IF name[n] \in CommaSuffixes /\ EndsWithComma(name[n - 1])
         THEN SubSeq(name, 1, n - 2) \o <<DropComma(name[n - 1])>>
    ELSE IF name[n] \in SpaceSuffixes THEN SubSeq(name, 1, n - 1)
    ELSE name

_extract_common_names(company_name) ==
    LET full == LowerSeq(company_name)
        short_lower == LowerSeq(StripLegalSuffix(company_name))
    IN  {full}
        \cup (IF short_lower # <<>> /\ short_lower # full THEN {short_lower} ELSE {})
        \cup (IF Len(short_lower) > 1
              THEN {<<short_lower[i]>> : i \in
                      {j \in 1..Len(short_lower) :
                          LenAtLeast4(short_lower[j]) /\ short_lower[j] \notin _GENERIC_WORDS}}
              ELSE {})

(***************************************************************************)
(* Dates.  A date value is None, a parsed datetime, or a string in some    *)
(* format; t is the instant it denotes.                                    *)
(***************************************************************************)
NoDate == [kind |-> "none", fmt |-> "", t |-> 0]
DateTime(t) == [kind |-> "datetime", fmt |-> "", t |-> t]
DateStr(fmt, t) == [kind |-> "str", fmt |-> fmt, t |-> t]

(***************************************************************************)
(* Raw items, as the adapters return them.                                 *)
(***************************************************************************)
RawItem(url, title, content, date, source, source_name, publisher_url) ==
    [url |-> url, title |-> title, content |-> content, published_date |-> date,
     source |-> source, source_name |-> source_name, publisher_url |-> publisher_url]

(***************************************************************************)
(* prefilter_results                                                       *)
(***************************************************************************)
relevance_terms(company_name, ticker_symbols) ==
    _extract_common_names(company_name)
    \cup {<<Lower(ticker_symbols[i])>> : i \in 1..Len(ticker_symbols)}
    \cup {<<Lower(SymbolBase(ticker_symbols[i]))>> :
             i \in {j \in 1..Len(ticker_symbols) : SymbolBase(ticker_symbols[j]) # ""}}

\* (a relevance check that reads the title only)
TitleOnly(item) == LowerSeq(item.title)

\* text_to_check = f"{title} {content}", both lowercased
text_to_check(item) == LowerSeq(item.title) \o LowerSeq(item.content)

PrefilterKeeps(item, company_name, ticker_symbols, blacklisted) ==
    LET domain == _extract_domain(item.url)
    IN  /\ ~(domain \in _JUNK_DOMAINS \/ domain \in blacklisted)
        /\ ~_JUNK_PATH_PATTERNS(item.url)
        /\ \E term \in relevance_terms(company_name, ticker_symbols) :
               Contains(text_to_check(item), term)

prefilter_results(raw_news, company_name, ticker_symbols, blacklisted_domains) ==
    SelectSeq(raw_news,
              LAMBDA item : PrefilterKeeps(item, company_name, ticker_symbols,
                                           blacklisted_domains))

(***************************************************************************)
(* What a remote service answers.  kind is "ok" (a success status and a    *)
(* payload of the expected shape, carrying items), "network_error",        *)
(* "timeout", "bad_status", "unparseable" (not XML / not JSON) or          *)
(* "bad_shape" (parses, but is not shaped as the adapter expects).         *)
(***************************************************************************)
Wire(url, title, suffix, content, date, src_url, form) ==
    [url |-> url, title |-> title, suffix |-> suffix, content |-> content,
     date |-> date, src_url |-> src_url, form |-> form]
Resp(kind, items) == [kind |-> kind, items |-> items]
FailureKinds == {"network_error", "timeout", "bad_status", "unparseable", "bad_shape"}
\* requests.RequestException: ConnectionError, Timeout, and (requests >= 2.27) the
\* JSONDecodeError of Response.json()
IsRequestException(kind) == kind \in {"network_error", "timeout"}

\* what one adapter call sees: the credential and the answers to its requests in order
Remote(key, r1, r2, r3) == [key |-> key, r1 |-> r1, r2 |-> r2, r3 |-> r3]
NoResp == Resp("bad_status", <<>>)

Returned(items) == [raised |-> FALSE, items |-> items]
Raised == [raised |-> TRUE, items |-> <<>>]

(***************************************************************************)
(* search_google_news                                                      *)
(***************************************************************************)
GoogleRaw(w) ==
    RawItem(w.url, w.title, w.content,
            IF w.date.kind = "str" /\ w.date.fmt = "rfc822"
            THEN DateTime(w.date.t) ELSE NoDate,
            "google_news", w.suffix, w.src_url)

RECURSIVE GoogleItems(_, _, _)
\* the loop over channel.findall('item') of one query
GoogleItems(items, results, max_results) ==
    IF items = <<>> THEN results
    ELSE LET w == Head(items)
             seen_urls == {results[i].url : i \in 1..Len(results)}
         IN  IF ~Truthy(w.url) \/ w.url \in seen_urls
             THEN GoogleItems(Tail(items), results, max_results)
             ELSE LET more == Append(results, GoogleRaw(w)) IN
                  IF Len(more) >= max_results THEN more
                  ELSE GoogleItems(Tail(items), more, max_results)

\* one query: a request error, a non-200 status, a ParseError and a feed without
\* <channel> each leave the results as they are
GoogleQuery(resp, results, max_results) ==
    IF resp.kind = "ok" THEN GoogleItems(resp.items, results, max_results)
    ELSE results

search_google_news(company, remote, max_results) ==
    LET primary_ticker == get_primary_ticker(company)
        first == GoogleQuery(remote.r1, <<>>, max_results)
    IN  IF primary_ticker # NoTicker
        THEN Returned(GoogleQuery(remote.r2, first, max_results))
        ELSE Returned(first)

(***************************************************************************)
(* search_tavily                                                           *)
(***************************************************************************)
TavilyRaw(w) ==
    RawItem(w.url, w.title, w.content,
            IF w.date.kind = "str" /\ w.date.fmt \in {"ymd", "iso", "isoz"}
            THEN DateTime(w.date.t) ELSE NoDate,
            "tavily", "", EmptyUrl)

search_tavily(company, remote) ==
    IF ~remote.key THEN Returned(<<>>)
    ELSE IF IsRequestException(remote.r1.kind) \/ remote.r1.kind = "bad_status"
              \/ remote.r1.kind = "unparseable"
         THEN Returned(<<>>)
    ELSE IF remote.r1.kind = "bad_shape" THEN Raised
    ELSE Returned([i \in 1..Len(remote.r1.items) |-> TavilyRaw(remote.r1.items[i])])

(***************************************************************************)
(* fetch_edgar_filings and _fetch_edgar_submissions                        *)
(***************************************************************************)
us_exchanges == {"NYSE", "NASDAQ", "AMEX", "OTC", "US", ""}
MaterialForms == {"8-K", "10-K", "10-Q", "6-K", "SC 13D", "SC 13G", "4", "13F-HR"}

\* (the title's "<form>:" is the token <form>; exchanges are held in upper case)
EdgarRaw(w, company) ==
    RawItem(w.url, <<w.form>> \o company.name, <<"SEC", w.form, "filing.">>,
            IF w.date.kind = "str" /\ w.date.fmt = "ymd"
            THEN DateTime(w.date.t) ELSE NoDate,
            "sec_edgar", "SEC EDGAR", EmptyUrl)

\* the fallback's URL names the company's CIK and the form type only
BrowseUrl(form) == Url(<<"www", "sec", "gov">>, <<"cgi-bin", "browse-edgar", form>>)

\* r2 answers company_tickers.json (its items: the entry of this ticker, if any),
\* r3 answers submissions/CIK<cik>.json (its items: the recent filings)
_fetch_edgar_submissions(company, remote, cutoff) ==
    IF remote.r2.kind # "ok" \/ remote.r2.items = <<>> THEN Returned(<<>>)
    ELSE IF remote.r3.kind # "ok" THEN Returned(<<>>)
    ELSE LET recent == SubSeq(remote.r3.items, 1,
                              IF Len(remote.r3.items) < 20 THEN Len(remote.r3.items) ELSE 20)
             kept == SelectSeq(recent,
                        LAMBDA w : ~(w.date.t < cutoff) /\ w.form \in MaterialForms)
         IN  Returned([i \in 1..Len(kept) |->
                          [EdgarRaw(kept[i], company) EXCEPT !.url = BrowseUrl(kept[i].form)]])

\* the requests the fallback issues: company_tickers.json, then, when the
\* ticker's CIK was found there, submissions/CIK<cik>.json
SubmissionsRequests(remote) ==
    IF remote.r2.kind # "ok" \/ remote.r2.items = <<>> THEN <<"company_tickers">>
    ELSE <<"company_tickers", "submissions">>

\* the early returns of fetch_edgar_filings: no ticker, or a ticker whose
\* exchange is set and is not one of us_exchanges
NotOnUsExchange(company) ==
    LET primary_ticker == get_primary_ticker(company) IN
    \/ primary_ticker = NoTicker
    \/ primary_ticker.exchange # "" /\ primary_ticker.exchange \notin us_exchanges

PrimaryFailsOnStatusOnly(r1) == r1.kind = "bad_status"

\* the full-text search fell through to the fallback: status other than 200,
\* or a RequestException (a body that is not JSON raises one from resp.json())
PrimaryFailed(r1) ==
    IsRequestException(r1.kind) \/ r1.kind = "unparseable" \/ r1.kind = "bad_status"

\* the endpoints one call of fetch_edgar_filings requests, in order
EdgarRequests(company, remote) ==
    IF NotOnUsExchange(company) THEN <<>>
    ELSE IF PrimaryFailed(remote.r1) THEN <<"efts_search">> \o SubmissionsRequests(remote)
    ELSE <<"efts_search">>

fetch_edgar_filings(company, remote, cutoff) ==
    IF NotOnUsExchange(company) THEN Returned(<<>>)
    ELSE IF PrimaryFailed(remote.r1)
         THEN _fetch_edgar_submissions(company, remote, cutoff)
    ELSE IF remote.r1.kind = "bad_shape" THEN Raised
    ELSE Returned([i \in 1..Len(remote.r1.items) |-> EdgarRaw(remote.r1.items[i], company)])

(***************************************************************************)
(* process_news_with_ai: the parsing of the capability's response.         *)
(* A JSON string field is a string; Missing is an absent key, Null a JSON  *)
(* null.                                                                   *)
(***************************************************************************)
Missing == "<missing>"
Null == "<null>"
Get(v, default) == IF v = Missing THEN default ELSE v

\* one element of the JSON array the capability answers with
Elem(url, relevant, headline, importance, event_type, source_name, date) ==
    [url |-> url, relevant |-> relevant, headline |-> headline, summary |-> "s",
     importance |-> importance, event_type |-> event_type,
     source_name |-> source_name, published_date |-> date]

\* kind: "ok" (text holding a JSON array of objects), "error" (the call raised),
\* "no_key", "no_array" (no '[' or ']'), "bad_json", "bad_element" (an array
\* with an element that is not an object; items are its other elements)
Llm(kind, items) == [kind |-> kind, items |-> items]

ClassifiedOf(item) ==
    [url |-> item.url,
     headline |-> Get(item.headline, ""),
     summary |-> Get(item.summary, ""),
     importance |-> Get(item.importance, "medium"),
     event_type |-> Get(item.event_type, "other"),
     source_name |-> Get(item.source_name, "Unknown"),
     published_date |-> item.published_date]

\* (a parser that skips the elements that are not objects)
ClassifyKeepsObjects(raw_news, response) ==
    IF raw_news = <<>> \/ response.kind \notin {"ok", "bad_element"} THEN <<>>
    ELSE LET relevant == SelectSeq(response.items, LAMBDA item : item.relevant)
         IN  [i \in 1..Len(relevant) |-> ClassifiedOf(relevant[i])]

process_news_with_ai(raw_news, response) ==
    IF raw_news = <<>> THEN <<>>
    ELSE IF response.kind # "ok" THEN <<>>
    ELSE LET relevant == SelectSeq(response.items, LAMBDA item : item.relevant)
         IN  [i \in 1..Len(relevant) |-> ClassifiedOf(relevant[i])]

(***************************************************************************)
(* _parse_published_date                                                   *)
(***************************************************************************)
AiFormats == {"ymd", "iso", "isoz"}
\* raw_date.replace('Z', '') makes the 'Z' form parse as the plain ISO form
RawFormats == {"iso", "isoz", "ymd", "rfc822"}

\* (the resolution without the fallback to timezone.now())
ParseWithoutFallback(raw_item, ai_item, now) ==
    IF raw_item.published_date.kind = "datetime" THEN raw_item.published_date.t
    ELSE IF ai_item.published_date.kind = "str" /\ ai_item.published_date.fmt \in AiFormats
         THEN ai_item.published_date.t
    ELSE raw_item.published_date.t

\* (a resolution that tries the raw item's string before the classifier's date)
ParseRawFirst(raw_item, ai_item, now) ==
    IF raw_item.published_date.kind = "datetime" THEN raw_item.published_date.t
    ELSE IF raw_item.published_date.kind = "str" /\ raw_item.published_date.fmt \in RawFormats
         THEN raw_item.published_date.t
    ELSE IF ai_item.published_date.kind = "str" /\ ai_item.published_date.fmt \in AiFormats
         THEN ai_item.published_date.t
    ELSE now

_parse_published_date(raw_item, ai_item, now) ==
    LET raw_date == raw_item.published_date
        ai_date_str == ai_item.published_date
    IN  IF raw_date.kind = "datetime" THEN raw_date.t
        ELSE IF ai_date_str.kind = "str" /\ ai_date_str.fmt \in AiFormats
             THEN ai_date_str.t
        ELSE IF raw_date.kind = "str" /\ raw_date.fmt \in RawFormats THEN raw_date.t
        ELSE now

(***************************************************************************)
(* The CompanyNews table.                                                  *)
(***************************************************************************)
AllUrls == <<UrlReuters, UrlWire, UrlJunk, UrlBlack, UrlQuote, UrlSec, UrlGoogle,
             PubReuters, UrlReutersUpper, UrlGoogleB>>

\* hashlib.sha256(url.encode()).hexdigest(): a digest per URL string, with no
\* collisions among the URLs of the model
Sha256(url) == CHOOSE i \in 1..Len(AllUrls) : AllUrls[i] = url

\* the raw item raw_by_url.get(url, {}) yields when the URL is not a key
NoRaw == RawItem(EmptyUrl, <<>>, <<>>, NoDate, "", "", EmptyUrl)

\* raw_by_url: the last item of filtered_news with each URL
raw_by_url_get(filtered_news, url) ==
    LET idx == {i \in 1..Len(filtered_news) : filtered_news[i].url = url} IN
    IF idx = {} THEN NoRaw
    ELSE filtered_news[CHOOSE i \in idx : \A j \in idx : j <= i]

\* x or y or 'Unknown' on strings (None and '' are falsy)
OrElse(x, y) == IF x \notin {"", Null, Missing} THEN x ELSE y

\* evaluating the defaults of get_or_create raises TypeError when headline or
\* event_type is null (None[:500]); a null importance violates NOT NULL on insert
DefaultsRaise(item) == item.headline = Null \/ item.event_type = Null
InsertRejected(item) == item.importance = Null

NewRow(id, company, item, raw_item, now) ==
    [id |-> id,
     company |-> company.id,
     url_hash |-> Sha256(item.url),
     headline |-> item.headline,
     summary |-> item.summary,
     source_url |-> item.url,
     source_name |-> OrElse(item.source_name, OrElse(raw_item.source_name, "Unknown")),
     source_type |-> IF HasSecGov(item.url) THEN "sec_edgar" ELSE "web",
     publisher_domain |-> IF Truthy(raw_item.publisher_url)
                          THEN _extract_domain(raw_item.publisher_url) ELSE <<>>,
     importance |-> item.importance,
     event_type |-> item.event_type,
     published_at |-> _parse_published_date(raw_item, item, now),
     fetched_at |-> now,
     is_read |-> FALSE,
     is_starred |-> FALSE]

(***************************************************************************)
(* fetch_and_store_news: one call is a run; its steps are the completion   *)
(* of each adapter future, the merge up to the classifier call, the        *)
(* classifier's return, and per classified item the lookup and the insert  *)
(* of get_or_create.                                                       *)
(***************************************************************************)
Adapters == {"google_news", "tavily", "edgar"}
Pending == [raised |-> FALSE, items |-> <<>>, state |-> "pending"]
Finished(result) == [raised |-> result.raised, items |-> result.items, state |-> "finished"]

CompanyById(id) == CHOOSE c \in Companies : c.id = id
ticker_symbols(company) == [i \in 1..Len(company.tickers) |-> company.tickers[i].symbol]

\* the blacklist of the organization (BlacklistedDomain rows)
Blacklist == {<<"badnews", "com">>}

\* days of lookback of the recent-headlines query, and how many it takes
HeadlineDays == 7
\* the defaults of fetch_edgar_filings(days_back) and search_google_news(max_results)
EdgarDaysBack == 7
GoogleMaxResults == 15

IdleRun ==
    [pc |-> "idle", owner |-> "", company |-> 0, future |-> 0,
     out |-> [a \in Adapters |-> Pending],
     raw_news |-> <<>>, deduped |-> <<>>, filtered |-> <<>>,
     existing_headlines |-> {}, processed |-> <<>>,
     idx |-> 0, published_at |-> 0, stored_count |-> 0, last |-> "", exc |-> "",
     adapter_failed |-> FALSE, inserted |-> {},
     result |-> 0, tracked |-> FALSE, prev |-> <<>>, prev_valid |-> FALSE,
     classifier_calls |-> 0, retry |-> FALSE, prev_filtered |-> <<>>, prev_store0 |-> {},
     store0 |-> {}]

\* the adapter call of one future
AdapterResult(a, company, remote, now) ==
    CASE a = "google_news" -> search_google_news(company, remote, GoogleMaxResults)
      [] a = "tavily" -> search_tavily(company, remote)
      [] a = "edgar" -> fetch_edgar_filings(company, remote, now - EdgarDaysBack)

\* (a merge that keeps every item with a URL)
DedupeKeepsAll(items, seen_urls) == SelectSeq(items, LAMBDA item : Truthy(item.url))

RECURSIVE Dedupe(_, _)
\* a company's history: what its last completed run classified, or what its
\* last run had in hand when it was interrupted
NoHist == [valid |-> FALSE, processed |-> <<>>, interrupted |-> FALSE,
           filtered |-> <<>>, store0 |-> {}]

\* the cross-source deduplication: the first item of each non-empty URL is kept
Dedupe(items, seen_urls) ==
    IF items = <<>> THEN <<>>
    ELSE LET item == Head(items) IN
         IF Truthy(item.url) /\ item.url \notin seen_urls
         THEN <<item>> \o Dedupe(Tail(items), seen_urls \cup {item.url})
         ELSE Dedupe(Tail(items), seen_urls)

\* the headlines of the company's rows published in the last 7 days
RecentHeadlines(rows, company_id, now) ==
    {row.headline : row \in {x \in rows : x.company = company_id
                                          /\ x.published_at >= now - HeadlineDays}}

\* (a table without the constraint refuses no insert)
UniqueNotEnforced(rows, company_id, url_hash) == FALSE

\* unique_together = ['company', 'url_hash']: the insert is refused
UniqueViolation(rows, company_id, url_hash) ==
    \E row \in rows : row.company = company_id /\ row.url_hash = url_hash

\* objects.get(company=..., url_hash=...) finds a row
RowExists(rows, company_id, url_hash) ==
    \E row \in rows : row.company = company_id /\ row.url_hash = url_hash

\* the as_completed loop catches the exception of a future (try / except Exception)
FutureExceptionEscapes == FALSE
FutureExceptionCaught == TRUE

\* the locals of a call that has just submitted its three adapter futures;
\* a tracked run remembers what its company's last completed run classified
\* and the table as it found it (history, for the properties of re-runs)
StartedRun(c, owner, fut, tracked) ==
    [IdleRun EXCEPT !.pc = "fanout", !.owner = owner, !.company = c.id,
                    !.future = fut,
                    !.tracked = tracked,
                    !.prev = IF tracked THEN hist[c.id].processed ELSE <<>>,
                    !.prev_valid = tracked /\ hist[c.id].valid,
                    !.retry = tracked /\ hist[c.id].interrupted,
                    !.prev_filtered = IF tracked THEN hist[c.id].filtered ELSE <<>>,
                    !.prev_store0 = IF tracked THEN hist[c.id].store0 ELSE {},
                    !.store0 = IF tracked THEN store ELSE {}]

\* RefreshCompanyNewsView.post: a manual refresh of one company
ManualStart(r, c, tracked) ==
    /\ runs[r].pc = "idle"
    /\ runs' = [runs EXCEPT ![r] = StartedRun(c, "manual", 0, tracked)]
    /\ clock' = clock + 1
    /\ UNCHANGED <<store, nextId, batch, hist, ad, cl, call>>

\* one future completes and the as_completed loop takes its result
AdapterComplete(r, a, remote) ==
    LET run == runs[r]
        res == AdapterResult(a, CompanyById(run.company), remote, clock)
    IN  /\ run.pc = "fanout"
        /\ run.out[a].state = "pending"
        /\ IF res.raised /\ ~FutureExceptionCaught
           THEN runs' = [runs EXCEPT ![r].pc = "raised", ![r].exc = "adapter",
                                     ![r].out[a] = Finished(res),
                                     ![r].adapter_failed = run.owner = "batch"]
           ELSE runs' = [runs EXCEPT ![r].out[a] = Finished(res),
                                     ![r].raw_news = run.raw_news \o res.items,
                                     ![r].adapter_failed =
                                         @ \/ (res.raised /\ run.owner = "batch")]
        /\ UNCHANGED <<store, nextId, batch, clock, hist, ad, cl, call>>

\* the run returns count
Return(run, count) ==
    [run EXCEPT !.pc = "done", !.result = count]

\* (a run that goes on with an empty list)
NoEarlyReturn(items) == FALSE

\* if not raw_news: return 0 / if not filtered_news: return 0
EarlyReturn(items) == items = <<>>

\* all futures are in: dedupe, pre-filter, load the recent headlines, and call
\* the classifier (or return 0 when nothing is left)
Merge(r) ==
    LET run == runs[r]
        company == CompanyById(run.company)
        deduped == Dedupe(run.raw_news, {})
        filtered == prefilter_results(deduped, company.name, ticker_symbols(company),
                                      Blacklist)
    IN  /\ run.pc = "fanout"
        /\ \A a \in Adapters : run.out[a].state = "finished"
        /\ runs' = [runs EXCEPT ![r] =
              IF EarlyReturn(run.raw_news) THEN Return(run, 0)
              ELSE IF EarlyReturn(filtered)
                   THEN Return([run EXCEPT !.deduped = deduped], 0)
              ELSE [run EXCEPT !.pc = "classify", !.deduped = deduped,
                               !.classifier_calls = run.classifier_calls + 1,
                               !.filtered = filtered,
                               !.existing_headlines =
                                   RecentHeadlines(store, run.company, clock)]]
        /\ hist' = IF runs'[r].pc = "done" /\ run.tracked
                   THEN [hist EXCEPT ![run.company] = [NoHist EXCEPT !.valid = TRUE]]
                   ELSE hist
        /\ UNCHANGED <<store, nextId, batch, clock, ad, cl, call>>

\* the position after item idx of the persist loop: the next item, or the return
Advance(run, outcome, count) ==
    IF run.idx < Len(run.processed)
    THEN [run EXCEPT !.pc = "persist", !.idx = run.idx + 1, !.last = outcome,
                     !.stored_count = count]
    ELSE [Return(run, count) EXCEPT !.last = outcome, !.stored_count = count]

HistAfter(run2) ==
    IF run2.pc = "done" /\ run2.tracked
    THEN [hist EXCEPT ![run2.company] = [NoHist EXCEPT !.valid = TRUE, !.processed = run2.processed]]
    ELSE hist

\* the locals of the fan-out and the prompt's inputs are not read after the
\* classifier call: only filtered_news (as raw_by_url) and processed are
AfterFanout(run) ==
    [run EXCEPT !.out = IdleRun.out, !.raw_news = <<>>, !.deduped = <<>>,
                !.existing_headlines = {}]

\* process_news_with_ai returns
Classify(r, response) ==
    LET run == runs[r]
        processed == process_news_with_ai(run.filtered, response)
    IN  /\ run.pc = "classify"
        /\ runs' = [runs EXCEPT ![r] =
              IF processed = <<>> THEN Return(AfterFanout(run), 0)
              ELSE [AfterFanout(run) EXCEPT !.pc = "persist", !.processed = processed,
                                            !.idx = 1, !.stored_count = 0]]
        /\ hist' = HistAfter(runs'[r])
        /\ UNCHANGED <<store, nextId, batch, clock, ad, cl, call>>

\* how the persist loop handles item idx before any insert
Lookup(run, rows) ==
    LET item == run.processed[run.idx] IN
    IF ~Truthy(item.url) THEN "skipped"
    ELSE IF item.url.type # "str" THEN "raised"
    ELSE IF DefaultsRaise(item) THEN "error"
    ELSE IF RowExists(rows, run.company, Sha256(item.url)) THEN "exists"
    ELSE "absent"

\* get_or_create on a row that exists: the row is returned as it is, the
\* defaults are not applied to it
GetExistingUpdates(rows, company_id, item) ==
    {IF row.company = company_id /\ row.url_hash = Sha256(item.url)
     THEN [row EXCEPT !.headline = item.headline, !.importance = item.importance]
     ELSE row : row \in rows}
GetExisting(rows, company_id, item) == rows

\* if created: stored_count += 1
CountAlways(count, created) == count + 1
CountAfter(count, created) == IF created THEN count + 1 ELSE count

ItemExceptionEscapes == FALSE
\* except Exception as e: logger.error(...) around get_or_create
ItemExceptionCaught == TRUE

\* the exception of one item's get_or_create leaves the call
StoreRaised(run) == [run EXCEPT !.pc = "raised", !.exc = "store"]

\* one item of the persist loop up to the lookup of get_or_create
PersistItem(r) ==
    LET run == runs[r]
        item == run.processed[run.idx]
        raw_item == raw_by_url_get(run.filtered, item.url)
        how == Lookup(run, store)
    IN  /\ run.pc = "persist"
        /\ runs' = [runs EXCEPT ![r] =
              CASE how = "raised" -> [run EXCEPT !.pc = "raised", !.exc = "encode"]
                [] how = "error" /\ ~ItemExceptionCaught -> StoreRaised(run)
                [] how = "absent" ->
                     [run EXCEPT !.pc = "create",
                                 !.published_at =
                                     _parse_published_date(raw_item, item, clock)]
                [] how = "exists" ->
                     Advance(run, how, CountAfter(run.stored_count, FALSE))
                [] OTHER -> Advance(run, how, run.stored_count)]
        /\ store' = IF how = "exists" THEN GetExisting(store, run.company, item)
                    ELSE store
        /\ hist' = HistAfter(runs'[r])
        /\ UNCHANGED <<nextId, batch, clock, ad, cl, call>>

\* the insert of get_or_create; a refused insert (IntegrityError) falls back to
\* the lookup, which finds the row another run has inserted
PersistCreate(r) ==
    LET run == runs[r]
        company == CompanyById(run.company)
        item == run.processed[run.idx]
        raw_item == raw_by_url_get(run.filtered, item.url)
        row == [NewRow(nextId, company, item, raw_item, clock)
                    EXCEPT !.published_at = run.published_at]
    IN  /\ run.pc = "create"
        /\ IF InsertRejected(item)
           THEN /\ runs' = [runs EXCEPT ![r] =
                              IF ItemExceptionCaught
                              THEN Advance(run, "error", run.stored_count)
                              ELSE StoreRaised(run)]
                /\ UNCHANGED <<store, nextId>>
           ELSE IF UniqueViolation(store, run.company, row.url_hash)
           THEN /\ runs' = [runs EXCEPT ![r] =
                              Advance(run, "integrity", CountAfter(run.stored_count, FALSE))]
                /\ store' = GetExisting(store, run.company, item)
                /\ UNCHANGED nextId
           ELSE /\ store' = store \cup {row}
                /\ nextId' = nextId + 1
                /\ runs' = [runs EXCEPT ![r] =
                              [Advance(run, "created", CountAfter(run.stored_count, TRUE))
                                  EXCEPT !.inserted = run.inserted \cup {nextId}]]
        /\ hist' = HistAfter(runs'[r])
        /\ UNCHANGED <<batch, clock, ad, cl, call>>

\* the caller of a manual refresh has the result: the slot is free again
ManualFinish(r) ==
    /\ runs[r].owner = "manual"
    /\ runs[r].pc \in {"done", "raised"}
    /\ runs' = [runs EXCEPT ![r] = IdleRun]
    /\ UNCHANGED <<store, nextId, batch, clock, hist, ad, cl, call>>

\* ToggleNewsReadView.post
ToggleNewsRead(pk) ==
    /\ \E row \in store :
          /\ row.id = pk
          /\ store' = (store \ {row}) \cup {[row EXCEPT !.is_read = ~row.is_read]}
    /\ UNCHANGED <<nextId, runs, batch, clock, hist, ad, cl, call>>

(***************************************************************************)
(* The inputs of the pipeline specifications: what the remote services     *)
(* and the text-completion capability may answer.                          *)
(***************************************************************************)
gDirect == Wire(UrlReuters, <<"Acme", "wins", "deal">>, "Reuters", <<>>,
                DateStr("rfc822", 8), EmptyUrl, "")
gNews   == Wire(UrlGoogle, <<"ACME", "up">>, "", <<>>,
                DateStr("garbage", 0), PubReuters, "")
tSame   == Wire(UrlReuters, <<"Markets", "today">>, "", <<>>, NoDate, EmptyUrl, "")
tJunk   == Wire(UrlJunk, <<"Acme", "Corp", "stock">>, "", <<>>,
                DateStr("iso", 9), EmptyUrl, "")
tBlack  == Wire(UrlBlack, <<"Acme", "rumour">>, "", <<>>, NoDate, EmptyUrl, "")
tQuote  == Wire(UrlQuote, <<"ACME", "quote">>, "", <<>>, NoDate, EmptyUrl, "")
eFiling == Wire(UrlSec, <<>>, "", <<>>, DateStr("ymd", 6), EmptyUrl, "8-K")

PipelineRemotes(a) ==
    CASE a = "google_news" ->
           { Remote(TRUE, Resp("ok", <<gDirect>>), Resp("ok", <<gNews>>), NoResp),
             Remote(TRUE, Resp("timeout", <<>>), Resp("ok", <<>>), NoResp) }
      [] a = "tavily" ->
           { Remote(TRUE, Resp("ok", <<tSame, tJunk>>), NoResp, NoResp),
             Remote(TRUE, Resp("bad_shape", <<>>), NoResp, NoResp),
             Remote(FALSE, NoResp, NoResp, NoResp) }
      [] a = "edgar" ->
           { Remote(TRUE, Resp("ok", <<eFiling>>), NoResp, NoResp),
             Remote(TRUE, Resp("network_error", <<>>), Resp("bad_status", <<>>), NoResp) }

aReuters  == Elem(UrlReuters, TRUE, "Acme wins deal", "high", "M&A", "Reuters",
                  DateStr("ymd", 5))
aReuters2 == Elem(UrlReuters, TRUE, "Acme deal: details", "critical", Missing, Null,
                  NoDate)
aSec      == Elem(UrlSec, TRUE, "Acme files 8-K", "medium", "filing", Missing,
                  DateStr("null", 0))
aWire     == Elem(UrlWire, TRUE, "Acme Q3", Missing, "earnings", "Wire", NoDate)
aNonStr   == Elem(NonStrUrl, TRUE, "Acme", "low", "other", "x", NoDate)
aNoHead   == Elem(UrlGoogle, TRUE, Null, "low", "other", "x", NoDate)
aNoImp    == Elem(UrlGoogle, TRUE, "ACME up", Null, "other", "x", NoDate)
aEmpty    == Elem(EmptyUrl, TRUE, "Acme", "low", "other", "x", NoDate)
aIrrelevant == Elem(UrlGoogle, FALSE, "ACME up", "low", "other", "x", NoDate)

SeqsUpTo(S, n) == UNION {[1..k -> S] : k \in 0..n}

PipelineElems == {aReuters, aReuters2, aSec, aNonStr}
PipelineResponses ==
    {Llm("ok", items) : items \in SeqsUpTo(PipelineElems, 2)}
    \cup {Llm("error", <<>>), Llm("no_array", <<>>), Llm("no_key", <<>>),
          Llm("bad_json", <<>>), Llm("bad_element", <<aReuters>>)}

(***************************************************************************)
(* The sequential specification: one caller refreshes companies one run    *)
(* after the other, while a user toggles the read flag of stored items.    *)
(***************************************************************************)
Clock0 == 10
IdleBatch == [pc |-> "idle", companies |-> <<>>, max_workers |-> 0, futures |-> <<>>,
              total |-> 0, errors |-> <<>>]
IdleAd == [pc |-> "idle", adapter |-> "", company |-> 0, remote |-> <<>>,
           max_results |-> 0, edgar_requests |-> <<>>, result |-> Returned(<<>>)]
IdleCl == [pc |-> "idle", raw_news |-> <<>>, response |-> Llm("", <<>>), result |-> <<>>]
IdleCall == [pc |-> "idle"]
SeqCompanies == {Acme, Globex}

Init ==
    /\ store = {}
    /\ nextId = 1
    /\ runs = [r \in {1} |-> IdleRun]
    /\ batch = IdleBatch
    /\ clock = Clock0
    /\ hist = [id \in {c.id : c \in Companies} |-> NoHist]
    /\ ad = IdleAd
    /\ cl = IdleCl
    /\ call = IdleCall

SeqStart(c) == clock < Clock0 + MaxStarts /\ ManualStart(1, c, TRUE)

Next ==
    \/ \E c \in SeqCompanies : SeqStart(c)
    \/ \E a \in Adapters : \E remote \in PipelineRemotes(a) : AdapterComplete(1, a, remote)
    \/ Merge(1)
    \/ \E response \in PipelineResponses : Classify(1, response)
    \/ PersistItem(1)
    \/ PersistCreate(1)
    \/ ManualFinish(1)
    \/ ToggleNewsRead(1)

Spec == Init /\ [][Next]_vars

(***************************************************************************)
(* Properties of the sequential specification.                             *)
(***************************************************************************)
\* a row without the flags the presentation owns
Content(row) == [row EXCEPT !.is_read = FALSE, !.is_starred = FALSE]
Contents(rows) == {Content(row) : row \in rows}

\* the run has merged and not yet forgotten the results of its adapter futures
Merged(run) ==
    /\ run.pc \in {"classify", "done"}
    /\ \A a \in Adapters : run.out[a].state = "finished"

\* C2: a run whose classifier yields the items of the company's previous
\* completed run returns 0 and leaves the stored rows as they were when it started
C2_RerunStoresNothing ==
    \A r \in DOMAIN runs :
        (runs[r].pc = "done" /\ runs[r].prev_valid /\ runs[r].processed = runs[r].prev)
        => /\ runs[r].result = 0
           /\ Contents(store) = Contents(runs[r].store0)

C2_Witness ==
    \E r \in DOMAIN runs :
        /\ runs[r].pc = "done" /\ runs[r].prev_valid
        /\ runs[r].processed = runs[r].prev
        /\ \E i \in 1..Len(runs[r].processed) :
              \E row \in store : /\ row.company = runs[r].company
                                 /\ row.source_url = runs[r].processed[i].url

\* C3: no step of a run changes or removes a stored row; only the user's
\* toggle of the read flag does
C3_RowsNeverRevised ==
    [][(\A row \in store : row \in store') \/ ToggleNewsRead(1)]_vars

C3_Witness ==
    \E r \in DOMAIN runs :
        /\ runs[r].pc = "done" /\ runs[r].last = "exists"
        /\ LET item == runs[r].processed[Len(runs[r].processed)] IN
           \E row \in store :
              /\ row.company = runs[r].company
              /\ row.url_hash = Sha256(item.url)
              /\ row.headline # item.headline
              /\ row.importance # item.importance
              /\ row.is_read

\* C7: when an adapter future raised, the run has not raised, and the merged
\* list holds the URLs of every item the other adapters returned
C7_AdapterFailureIsolated ==
    \A r \in DOMAIN runs :
        (\E a \in Adapters : runs[r].out[a].state = "finished" /\ runs[r].out[a].raised)
        => /\ runs[r].pc # "raised"
           /\ \A b \in Adapters :
                 (runs[r].out[b].state = "finished" /\ ~runs[r].out[b].raised)
                 => Range(runs[r].out[b].items) \subseteq Range(runs[r].raw_news)
           /\ Merged(runs[r]) /\ runs[r].raw_news # <<>>
              => {x.url : x \in Range(runs[r].deduped)}
                    = {x.url : x \in {y \in Range(runs[r].raw_news) : Truthy(y.url)}}

C7_Witness ==
    \E r \in DOMAIN runs :
        /\ runs[r].pc = "classify"
        /\ runs[r].out["tavily"].raised
        /\ runs[r].filtered # <<>>
        /\ \E x \in Range(runs[r].filtered) : x.source = "sec_edgar"

\* the index of the first item of s with this URL
FirstWithUrl(s, url) == CHOOSE i \in 1..Len(s) : s[i].url = url /\ \A j \in 1..(i - 1) : s[j].url # url
NoUrlTwice(s) == \A i, j \in 1..Len(s) : i # j => s[i].url # s[j].url

\* C9: the lists handed to the pre-filter and to the classifier hold no URL
\* twice, and the item kept for a URL is the first with it in the merged list
C9_MergeKeepsFirstPerUrl ==
    \A r \in DOMAIN runs :
        /\ NoUrlTwice(runs[r].filtered)
        /\ Merged(runs[r]) /\ runs[r].raw_news # <<>>
           => /\ NoUrlTwice(runs[r].deduped)
              /\ \A i \in 1..Len(runs[r].deduped) :
                    runs[r].deduped[i]
                      = runs[r].raw_news[FirstWithUrl(runs[r].raw_news, runs[r].deduped[i].url)]
              /\ \A k \in 1..Len(runs[r].raw_news) :
                    Truthy(runs[r].raw_news[k].url)
                    => \E i \in 1..Len(runs[r].deduped) :
                          runs[r].deduped[i].url = runs[r].raw_news[k].url

C9_Witness ==
    \E r \in DOMAIN runs :
        /\ runs[r].pc = "classify"
        /\ \E k1, k2 \in 1..Len(runs[r].raw_news) :
              /\ k1 < k2
              /\ runs[r].raw_news[k1].url = runs[r].raw_news[k2].url
              /\ runs[r].raw_news[k1].source # runs[r].raw_news[k2].source
              /\ runs[r].raw_news[k1].title # runs[r].raw_news[k2].title
              /\ runs[r].raw_news[k1] \in Range(runs[r].filtered)

\* the merged list when the futures complete in this order
MergedInOrder(out, order) ==
    out[order[1]].items \o out[order[2]].items \o out[order[3]].items
CompletionOrders ==
    {o \in [1..3 -> Adapters] : \A i, j \in 1..3 : i # j => o[i] # o[j]}

\* C10: the retained raw items are those of every completion order of the
\* same adapter results
C10_MergeOrderIndependent ==
    \A r \in DOMAIN runs :
        Merged(runs[r]) /\ runs[r].raw_news # <<>>
        => \A o \in CompletionOrders :
              Range(Dedupe(MergedInOrder(runs[r].out, o), {})) = Range(runs[r].deduped)

(***************************************************************************)
(* The concurrent specification: callers refresh companies at the same     *)
(* time (a manual refresh beside another), each run a thread of its own.   *)
(***************************************************************************)
MaxConcStarts == 3      \* runs started per behaviour of the concurrent specification

gBoth == Wire(UrlReuters, <<"Acme", "buys", "Globex">>, "Reuters", <<>>,
              DateStr("rfc822", 8), EmptyUrl, "")

ConcRemotes(a) ==
    CASE a = "google_news" ->
           { Remote(TRUE, Resp("ok", <<gBoth>>), Resp("bad_status", <<>>), NoResp) }
      [] a = "tavily" -> { Remote(FALSE, NoResp, NoResp, NoResp) }
      [] a = "edgar" -> { Remote(TRUE, Resp("timeout", <<>>), Resp("bad_status", <<>>), NoResp) }

ConcResponses ==
    { Llm("ok", <<aReuters>>), Llm("ok", <<aSec, aReuters2>>) }

InitConc ==
    /\ store = {}
    /\ nextId = 1
    /\ runs = [r \in {1, 2} |-> IdleRun]
    /\ batch = IdleBatch
    /\ clock = Clock0
    /\ hist = [id \in {c.id : c \in Companies} |-> NoHist]
    /\ ad = IdleAd
    /\ cl = IdleCl
    /\ call = IdleCall

ConcStart(r, c) == clock < Clock0 + MaxConcStarts /\ ManualStart(r, c, FALSE)

NextConc ==
    \/ \E r \in DOMAIN runs : \E c \in SeqCompanies : ConcStart(r, c)
    \/ \E r \in DOMAIN runs : \E a \in Adapters : \E remote \in ConcRemotes(a) :
          AdapterComplete(r, a, remote)
    \/ \E r \in DOMAIN runs : Merge(r)
    \/ \E r \in DOMAIN runs : \E response \in ConcResponses : Classify(r, response)
    \/ \E r \in DOMAIN runs : PersistItem(r)
    \/ \E r \in DOMAIN runs : PersistCreate(r)
    \/ \E r \in DOMAIN runs : ManualFinish(r)

SpecConc == InitConc /\ [][NextConc]_vars

\* C1: no two stored rows share (company, url_hash)
C1_UniquePerCompanyAndHash ==
    \A row1, row2 \in store :
        (row1.company = row2.company /\ row1.url_hash = row2.url_hash)
        => row1.id = row2.id

\* two runs of one company were both past the lookup for the same URL: one
\* inserted, the other's insert was refused
C1_Witness ==
    \E r1, r2 \in DOMAIN runs :
        /\ r1 # r2
        /\ runs[r1].company = runs[r2].company
        /\ runs[r1].last = "created" /\ runs[r2].last = "integrity"
        /\ \E row1, row2 \in store :
              row1.url_hash = row2.url_hash /\ row1.company # row2.company

(***************************************************************************)
(* The adapter-level specification: one call of one adapter, for every     *)
(* company and every answer of its remote service.                         *)
(***************************************************************************)
gNoLink == Wire(EmptyUrl, <<"Acme">>, "", <<>>, NoDate, EmptyUrl, "")
sOld    == Wire(EmptyUrl, <<>>, "", <<>>, DateStr("ymd", 1), EmptyUrl, "8-K")
sNew    == Wire(EmptyUrl, <<>>, "", <<>>, DateStr("ymd", 9), EmptyUrl, "10-Q")
sMinor  == Wire(EmptyUrl, <<>>, "", <<>>, DateStr("ymd", 9), EmptyUrl, "S-8")
sEntry  == Wire(EmptyUrl, <<>>, "", <<>>, NoDate, EmptyUrl, "")

Answers(wires) ==
    {Resp(kind, <<>>) : kind \in FailureKinds}
    \cup {Resp("ok", items) : items \in SeqsUpTo(wires, MaxFeedLen)}

AdapterRemotes(a) ==
    CASE a = "google_news" ->
           {Remote(TRUE, r1, r2, NoResp) :
               r1 \in Answers({gDirect, gNews, gNoLink}), r2 \in Answers({gDirect, gNews})}
      [] a = "tavily" ->
           {Remote(key, r1, NoResp, NoResp) :
               key \in BOOLEAN, r1 \in Answers({tSame, tJunk, tQuote})}
      [] a = "edgar" ->
           {Remote(TRUE, r1, r2, r3) :
               r1 \in Answers({eFiling}),
               r2 \in {Resp("ok", <<sEntry>>), Resp("ok", <<>>), Resp("bad_status", <<>>),
                       Resp("bad_shape", <<>>)},
               r3 \in {Resp("ok", <<sOld, sNew>>), Resp("ok", <<sMinor>>),
                       Resp("timeout", <<>>), Resp("bad_shape", <<>>)}}

AdapterCall(a, c, remote, max_results) ==
    /\ ad.pc = "idle"
    /\ ad' = [pc |-> "called", adapter |-> a, company |-> c.id, remote |-> remote,
              max_results |-> max_results,
              edgar_requests |-> IF a = "edgar" THEN EdgarRequests(c, remote) ELSE <<>>,
              result |-> CASE a = "google_news" -> search_google_news(c, remote, max_results)
                           [] a = "tavily" -> search_tavily(c, remote)
                           [] a = "edgar" ->
                                fetch_edgar_filings(c, remote, Clock0 - EdgarDaysBack)]
    /\ UNCHANGED <<store, nextId, runs, batch, clock, hist, cl, call>>

NextAdapters ==
    \E a \in Adapters : \E c \in Companies : \E remote \in AdapterRemotes(a) :
        \E max_results \in {1, GoogleMaxResults} : AdapterCall(a, c, remote, max_results)

SpecAdapters == Init /\ [][NextAdapters]_vars

EdgarCalled == ad.pc = "called" /\ ad.adapter = "edgar"
Times(endpoint) ==
    Cardinality({i \in 1..Len(ad.edgar_requests) : ad.edgar_requests[i] = endpoint})
\* what the remote answered to the full-text search, whether or not it was asked
PrimaryRequestError == ad.remote.r1.kind \in {"network_error", "timeout", "unparseable"}
PrimaryBadStatus == ad.remote.r1.kind = "bad_status"
SecondaryFailed ==
    \/ ad.remote.r2.kind # "ok"
    \/ ad.remote.r2.kind = "ok" /\ ad.remote.r2.items # <<>> /\ ad.remote.r3.kind # "ok"

\* C23: a call of fetch_edgar_filings that reaches its requests enters the
\* fallback (whose first request is company_tickers.json) exactly when the
\* full-text search ended in a request error or a status other than 200, and
\* then once; after a successful search no fallback endpoint is requested;
\* when the fallback fails too the call returns the empty list
C23_FallbackIffPrimaryFails ==
    EdgarCalled /\ Times("efts_search") > 0 =>
        /\ Times("efts_search") = 1
        /\ Times("company_tickers") = (IF PrimaryRequestError \/ PrimaryBadStatus THEN 1 ELSE 0)
        /\ Times("submissions") <= Times("company_tickers")
        /\ (PrimaryRequestError \/ PrimaryBadStatus) /\ SecondaryFailed
               => ad.result = Returned(<<>>)
C23_Witness ==
    /\ EdgarCalled /\ PrimaryRequestError /\ SecondaryFailed
    /\ ad.edgar_requests = <<"efts_search", "company_tickers", "submissions">>
    /\ ad.result = Returned(<<>>)

\* C29: a call of search_google_news returns at most max_results items, no
\* two of them with the same link
C29_GoogleAtMostMaxResults ==
    ad.pc = "called" /\ ad.adapter = "google_news" =>
        /\ Len(ad.result.items) <= ad.max_results
        /\ \A i, j \in 1..Len(ad.result.items) :
               ad.result.items[i].url = ad.result.items[j].url => i = j

\* C24: a call of fetch_edgar_filings for a company without a primary ticker
\* on one of the named domestic exchanges (no ticker and a blank exchange
\* included) returns the empty list and requests nothing
DomesticExchanges == us_exchanges \ {""}
C24_NoRequestOffDomesticExchange ==
    EdgarCalled /\ get_primary_ticker(CompanyById(ad.company)).exchange \notin DomesticExchanges
        => ad.edgar_requests = <<>> /\ ad.result = Returned(<<>>)

(***************************************************************************)
(* The classifier-level specification: one call of process_news_with_ai,   *)
(* for every response of the text-completion capability.                   *)
(***************************************************************************)
\* "Return a JSON array with AT MOST 3 items"
MaxSelected == 3

ClassifierResponses ==
    {Llm("ok", items) : items \in SeqsUpTo({aReuters, aSec, aIrrelevant}, MaxRespLen)}
    \cup {Llm(kind, <<>>) : kind \in {"error", "no_key", "no_array", "bad_json"}}
    \cup {Llm("bad_element", <<>>), Llm("bad_element", <<aReuters>>)}

ClassifierCall(raw_news, response) ==
    /\ cl.pc = "idle"
    /\ cl' = [pc |-> "called", raw_news |-> raw_news, response |-> response,
              result |-> process_news_with_ai(raw_news, response)]
    /\ UNCHANGED <<store, nextId, runs, batch, clock, hist, ad, call>>

NextClassifier ==
    \E raw_news \in {<<>>, <<GoogleRaw(gDirect)>>, <<GoogleRaw(gDirect), EdgarRaw(eFiling, Acme)>>} :
        \E response \in ClassifierResponses : ClassifierCall(raw_news, response)

SpecClassifier == Init /\ [][NextClassifier]_vars

\* C4: process_news_with_ai returns at most 3 classified items
C4_AtMostThreeSelected == cl.pc = "called" => Len(cl.result) <= MaxSelected

(***************************************************************************)
(* The batch specification: one call of fetch_news_for_companies, its      *)
(* pool of max_workers threads running the companies' runs.                *)
(***************************************************************************)
MaxBatchLen == 2

Queued == [state |-> "queued", raised |-> FALSE, exc |-> "", count |-> 0,
           adapter_failed |-> FALSE, collected |-> FALSE]

BatchCompanies == {Acme, BP}
BatchLists == {cs \in SeqsUpTo({c.id : c \in BatchCompanies}, MaxBatchLen) : cs # <<>>}
WorkerCounts == {1, 2}

BatchRemotes(a) ==
    CASE a = "google_news" ->
           { Remote(TRUE, Resp("ok", <<gBoth>>), Resp("bad_status", <<>>), NoResp) }
      [] a = "tavily" ->
           { Remote(FALSE, NoResp, NoResp, NoResp),
             Remote(TRUE, Resp("bad_shape", <<>>), NoResp, NoResp) }
      [] a = "edgar" ->
           { Remote(TRUE, Resp("timeout", <<>>), Resp("bad_status", <<>>), NoResp) }

BatchResponses == { Llm("ok", <<aReuters>>), Llm("ok", <<aNonStr>>), Llm("error", <<>>) }

InitBatch ==
    /\ store = {}
    /\ nextId = 1
    /\ runs = [r \in {1, 2} |-> IdleRun]
    /\ batch = IdleBatch
    /\ clock = Clock0
    /\ hist = [id \in {c.id : c \in Companies} |-> NoHist]
    /\ ad = IdleAd
    /\ cl = IdleCl
    /\ call = IdleCall

\* total = 0, errors = [], and one future submitted per company
BatchStart(companies, max_workers) ==
    /\ batch.pc = "idle"
    /\ batch' = [pc |-> "running", companies |-> companies, max_workers |-> max_workers,
                 futures |-> [i \in 1..Len(companies) |-> Queued],
                 total |-> 0, errors |-> <<>>]
    /\ UNCHANGED <<store, nextId, runs, clock, hist, ad, cl, call>>

Busy == {r \in DOMAIN runs : runs[r].owner = "batch"}

\* (a pool that starts a thread for every submitted call)
PoolUnbounded == TRUE

\* ThreadPoolExecutor(max_workers=max_workers): a thread is idle, or fewer
\* than max_workers threads exist
PoolHasThread == Cardinality(Busy) < batch.max_workers

\* a thread of the pool takes the oldest queued future
WorkerStart(r) ==
    /\ batch.pc = "running"
    /\ runs[r].pc = "idle"
    /\ PoolHasThread
    /\ \E i \in DOMAIN batch.futures :
          /\ batch.futures[i].state = "queued"
          /\ \A j \in 1..(i - 1) : batch.futures[j].state # "queued"
          /\ runs' = [runs EXCEPT ![r] =
                         StartedRun(CompanyById(batch.companies[i]), "batch", i, FALSE)]
          /\ batch' = [batch EXCEPT !.futures[i].state = "running"]
    /\ UNCHANGED <<store, nextId, clock, hist, ad, cl, call>>

\* the run of a thread ends: its future holds the count or the exception
WorkerFinish(r) ==
    LET run == runs[r] IN
    /\ run.owner = "batch"
    /\ run.pc \in {"done", "raised"}
    /\ batch' = [batch EXCEPT !.futures[run.future] =
                    [state |-> "finished", raised |-> run.pc = "raised", exc |-> run.exc,
                     count |-> IF run.pc = "done" THEN run.result ELSE 0,
                     adapter_failed |-> run.adapter_failed, collected |-> FALSE]]
    /\ runs' = [runs EXCEPT ![r] = IdleRun]
    /\ UNCHANGED <<store, nextId, clock, hist, ad, cl, call>>

\* the as_completed loop catches the exception of a company's future
RunExceptionEscapes == FALSE
RunExceptionCaught == TRUE

\* one round of the as_completed loop: total += count, or errors.append(...)
Collect(i) ==
    LET future == batch.futures[i] IN
    /\ batch.pc = "running"
    /\ future.state = "finished"
    /\ ~future.collected
    /\ batch' =
         IF ~future.raised
         THEN [batch EXCEPT !.futures[i].collected = TRUE, !.total = @ + future.count]
         ELSE IF RunExceptionCaught
         THEN [batch EXCEPT !.futures[i].collected = TRUE,
                            !.errors = Append(@, [company |-> batch.companies[i],
                                                  e |-> future.exc])]
         ELSE [batch EXCEPT !.pc = "raised"]
    /\ UNCHANGED <<store, nextId, runs, clock, hist, ad, cl, call>>

\* return total, errors
BatchReturn ==
    /\ batch.pc = "running"
    /\ \A i \in DOMAIN batch.futures : batch.futures[i].collected
    /\ batch' = [batch EXCEPT !.pc = "returned"]
    /\ UNCHANGED <<store, nextId, runs, clock, hist, ad, cl, call>>

NextBatch ==
    \/ \E companies \in BatchLists : \E max_workers \in WorkerCounts :
          BatchStart(companies, max_workers)
    \/ \E r \in DOMAIN runs : WorkerStart(r)
    \/ \E r \in DOMAIN runs : \E a \in Adapters : \E remote \in BatchRemotes(a) :
          AdapterComplete(r, a, remote)
    \/ \E r \in DOMAIN runs : Merge(r)
    \/ \E r \in DOMAIN runs : \E response \in BatchResponses : Classify(r, response)
    \/ \E r \in DOMAIN runs : PersistItem(r)
    \/ \E r \in DOMAIN runs : PersistCreate(r)
    \/ \E r \in DOMAIN runs : WorkerFinish(r)
    \/ \E i \in DOMAIN batch.futures : Collect(i)
    \/ BatchReturn

SpecBatch == InitBatch /\ [][NextBatch]_vars

Futures == DOMAIN batch.futures
Failed == {i \in Futures : batch.futures[i].raised}
Counts == [i \in Futures |-> IF batch.futures[i].raised THEN 0 ELSE batch.futures[i].count]

\* C6: fetch_news_for_companies does not raise when a company's run raises;
\* on return every company's run has ended, total is the sum of the counts of
\* the runs that returned and errors has one text per run that raised, naming
\* its company
C6_EveryCompanyAccountedOnce ==
    /\ batch.pc # "raised"
    /\ batch.pc = "returned" =>
          /\ \A i \in Futures : batch.futures[i].state = "finished"
          /\ batch.total = SeqSum(Counts)
          /\ Len(batch.errors) = Cardinality(Failed)
          /\ \A id \in Range(batch.companies) :
                Cardinality({k \in DOMAIN batch.errors : batch.errors[k].company = id})
                = Cardinality({i \in Failed : batch.companies[i] = id})

C6_Witness ==
    /\ batch.pc = "returned"
    /\ Len(batch.errors) = 1
    /\ batch.total = 1
    /\ \E i, j \in Futures : batch.futures[i].raised /\ batch.futures[j].count = 1

AdapterFailed == {i \in Futures : batch.futures[i].adapter_failed}

\* C5 as stated: with exactly one company whose adapter fails, the error
\* list returned has exactly one entry
C5_AdapterFailureIsOneError ==
    (batch.pc = "returned" /\ Len(batch.companies) >= 2 /\ Cardinality(AdapterFailed) = 1)
        => Len(batch.errors) = 1

\* C5: the failure of an adapter is absorbed by its company's run, which
\* returns and is counted like the others: no error entry comes from an
\* adapter, errors holds exactly the runs that raised while storing, and the
\* total is the sum of the counts of all runs that returned
C5_AdapterFailureIsNoError ==
    (batch.pc = "returned" /\ Len(batch.companies) >= 2 /\ Cardinality(AdapterFailed) = 1)
        => /\ \A k \in DOMAIN batch.errors : batch.errors[k].e # "adapter"
           /\ \A i \in AdapterFailed :
                 batch.futures[i].raised => batch.futures[i].exc = "encode"
           /\ Len(batch.errors) = Cardinality({i \in Futures : batch.futures[i].exc = "encode"})
           /\ batch.total = SeqSum(Counts)

C5_Witness ==
    /\ batch.pc = "returned"
    /\ Len(batch.companies) >= 2
    /\ Cardinality(AdapterFailed) = 1
    /\ batch.errors = <<>>
    /\ batch.total = 1
    /\ \E i \in AdapterFailed : batch.futures[i].count = 1

(***************************************************************************)
(* The prefilter-level specification: one call of prefilter_results, for   *)
(* every company, blacklist and short list of raw items.                   *)
(***************************************************************************)
MaxRawLen == 2

PrefilterUrls == {UrlReuters, UrlJunk, UrlJunkWww, UrlJunkPort, UrlBlack, UrlBlackPort,
                  UrlQuote}
PrefilterTexts ==
    { [title |-> <<"Acme", "Corp", "Wins", "deal">>, content |-> <<>>],
      [title |-> <<"Markets", "today">>, content |-> <<"shares", "of", "ACME", "Corp", "rose">>],
      [title |-> <<"Markets", "today">>, content |-> <<>>],
      [title |-> <<"Globex", "Widgets,", "Inc.", "expands">>, content |-> <<"BP">>] }
PrefilterItems ==
    {RawItem(url, text.title, text.content, NoDate, "tavily", "", EmptyUrl) :
        url \in PrefilterUrls, text \in PrefilterTexts}
PrefilterBlacklists == {{}, Blacklist}

PrefilterCall(raw_news, c, blacklisted) ==
    /\ call.pc = "idle"
    /\ call' = [pc |-> "called", fn |-> "prefilter_results", raw_news |-> raw_news,
                company |-> c.id, blacklisted |-> blacklisted,
                result |-> prefilter_results(raw_news, c.name, ticker_symbols(c),
                                             blacklisted)]
    /\ UNCHANGED <<store, nextId, runs, batch, clock, hist, ad, cl>>

NextPrefilter ==
    \E raw_news \in SeqsUpTo(PrefilterItems, MaxRawLen) : \E c \in Companies :
        \E blacklisted \in PrefilterBlacklists : PrefilterCall(raw_news, c, blacklisted)

SpecPrefilter == Init /\ [][NextPrefilter]_vars

PrefilterCalled == call.pc = "called" /\ call.fn = "prefilter_results"

\* the host of the URL: the netloc without its port
HostLabel(w) == CASE w = "com:443" -> "com" [] OTHER -> w
Hostname(url) == [i \in 1..Len(url.netloc) |-> HostLabel(Lower(url.netloc[i]))]
\* the host without a leading "www."
BareDomain(url) ==
    LET h == Hostname(url) IN IF Len(h) > 1 /\ Head(h) = "www" THEN Tail(h) ELSE h

\* C11: no item of the result of prefilter_results has a bare domain that
\* is in the junk-domain set or in the blacklist, whatever its title and content
C11_JunkDomainsAlwaysDropped ==
    PrefilterCalled =>
        \A i \in 1..Len(call.result) :
            BareDomain(call.result[i].url) \notin (_JUNK_DOMAINS \cup call.blacklisted)

NameIn(item, c) == Contains(LowerSeq(item.title), LowerSeq(c.name))
                   \/ Contains(LowerSeq(item.content), LowerSeq(c.name))
DomainOrPathRule(item, blacklisted) ==
    \/ _extract_domain(item.url) \in (_JUNK_DOMAINS \cup blacklisted)
    \/ _JUNK_PATH_PATTERNS(item.url)

Added(run) == {row \in store : \A old \in run.store0 : old.id # row.id}
Storing(run) == run.tracked /\ run.pc \in {"persist", "create", "done"}

\* C13: every row a run adds has the URL of an item that was handed to the
\* classifier, and the run adds no more rows than the pre-filter kept items
C13_StoredUrlsWereClassified ==
    \A r \in DOMAIN runs :
        Storing(runs[r]) =>
            /\ \A row \in Added(runs[r]) :
                  \E i \in 1..Len(runs[r].filtered) : runs[r].filtered[i].url = row.source_url
            /\ Cardinality(Added(runs[r])) <= Len(runs[r].filtered)

(***************************************************************************)
(* The date-level specification: one call of _parse_published_date, for    *)
(* every combination of dates on the raw item and on the classified item.  *)
(***************************************************************************)
\* published_date of a raw item: absent, a parsed datetime, or a string
RawDates == {NoDate, DateTime(8)}
            \cup {DateStr(fmt, 5) : fmt \in RawFormats \cup {"garbage", ""}}
\* published_date of a classified item: absent or null, the text 'null', a
\* string in some format, or a JSON value that is not a string
AiDates == {NoDate, DateStr("null", 0), [kind |-> "int", fmt |-> "", t |-> 0]}
           \cup {DateStr(fmt, 6) : fmt \in AiFormats \cup {"garbage", "rfc822", ""}}
RawWithDate(date) == RawItem(UrlReuters, <<"Acme">>, <<>>, date, "tavily", "", EmptyUrl)

DateCall(raw_item, ai_item, now) ==
    /\ call.pc = "idle"
    /\ call' = [pc |-> "called", fn |-> "_parse_published_date", raw_item |-> raw_item,
                ai_item |-> ai_item, now |-> now,
                result |-> _parse_published_date(raw_item, ai_item, now)]
    /\ UNCHANGED <<store, nextId, runs, batch, clock, hist, ad, cl>>

NextParseDate ==
    \E raw_item \in {NoRaw} \cup {RawWithDate(date) : date \in RawDates} :
        \E date \in AiDates : \E now \in {clock, clock + 1} :
            DateCall(raw_item, ClassifiedOf([aReuters EXCEPT !.published_date = date]), now)

SpecParseDate == Init /\ [][NextParseDate]_vars

\* t denotes an instant (the dates that denote none carry NoDate's t)
IsInstant(t) == t # NoDate.t
DateCalled == call.pc = "called" /\ call.fn = "_parse_published_date"

\* C14: _parse_published_date returns an instant for every combination of
\* dates: the raw item's datetime, else the classified item's parsed date,
\* else the raw item's parsed string, else the time of the call
C14_PublishedAtNeverNull ==
    DateCalled =>
        /\ IsInstant(call.result)
        /\ call.raw_item.published_date.kind = "datetime"
              => call.result = call.raw_item.published_date.t
        /\ (call.raw_item.published_date.kind # "datetime"
            /\ ~(call.ai_item.published_date.kind = "str"
                 /\ call.ai_item.published_date.fmt \in AiFormats)
            /\ ~(call.raw_item.published_date.kind = "str"
                 /\ call.raw_item.published_date.fmt \in RawFormats))
              => call.result = call.now

C14_Witness ==
    /\ DateCalled
    /\ call.raw_item.published_date = DateStr("garbage", 5)
    /\ call.ai_item.published_date = DateStr("null", 0)
    /\ call.result = call.now

\* CompanyNews.Importance, and the event categories the prompt names
Importance == {"high", "medium", "low"}
EventTypes == {"earnings", "management", "M&A", "regulatory", "product", "legal",
               "analyst", "filing", "other"}

\* C15: every stored row has an importance and an event type of these sets
C15_StoredEnumsValid ==
    \A row \in store : row.importance \in Importance /\ row.event_type \in EventTypes

\* the classifier has nothing to return: the call failed, the text holds no
\* list, the list does not parse or holds an element that is not an object,
\* or no element of the list is relevant
ClassifierFails(response) ==
    \/ response.kind # "ok"
    \/ \A i \in 1..Len(response.items) : ~response.items[i].relevant

\* C16: when the classifier fails, process_news_with_ai returns the empty
\* list, and the run returns 0 without raising and without touching the table
C16_ClassifierFailureIsZeroItems ==
    [][\A response \in PipelineResponses :
          (ClassifierFails(response) /\ Classify(1, response))
          => /\ process_news_with_ai(runs[1].filtered, response) = <<>>
             /\ runs'[1].pc = "done"
             /\ runs'[1].result = 0
             /\ store' = store]_vars

C16_Witness ==
    /\ runs[1].pc = "done"
    /\ runs[1].filtered # <<>>
    /\ runs[1].processed = <<>>
    /\ runs[1].result = 0
    /\ store # {}

(***************************************************************************)
(* Properties of the counts of concurrent runs.                            *)
(***************************************************************************)
\* what the run has counted so far, and what it returns
Counted(run) == IF run.pc = "done" THEN run.result ELSE run.stored_count

\* C17: at every point a run has counted exactly the rows it inserted; the
\* rows of two runs are distinct rows, so the counts add up to the rows added;
\* and meeting a stored (company, url_hash) is not an error of the item
C17_CountIsRowsInserted ==
    /\ \A r \in DOMAIN runs :
          /\ runs[r].pc # "raised" => Counted(runs[r]) = Cardinality(runs[r].inserted)
          /\ runs[r].inserted \subseteq {row.id : row \in store}
          /\ runs[r].last = "error" =>
                LET item == runs[r].processed[IF runs[r].pc = "done" THEN Len(runs[r].processed)
                                              ELSE runs[r].idx - 1]
                IN  DefaultsRaise(item) \/ InsertRejected(item)
    /\ \A r1, r2 \in DOMAIN runs : r1 # r2 => runs[r1].inserted \cap runs[r2].inserted = {}

C17_Witness ==
    \E r1, r2 \in DOMAIN runs :
        /\ r1 # r2 /\ runs[r1].company = runs[r2].company
        /\ runs[r1].pc = "done" /\ runs[r2].pc = "done"
        /\ runs[r1].processed = runs[r2].processed
        /\ runs[r1].result = 1 /\ runs[r2].result = 0
        /\ runs[r2].last = "integrity"
        /\ Cardinality(store) = 1

(***************************************************************************)
(* The retry specification: the process of a run may be killed inside the  *)
(* persist loop; the caller then runs the company again.                   *)
(***************************************************************************)
MaxRetryStarts == 3

RetryRemotes(a) ==
    CASE a = "google_news" ->
           { Remote(TRUE, Resp("ok", <<gDirect>>), Resp("ok", <<gNews>>), NoResp) }
      [] a = "tavily" -> { Remote(FALSE, NoResp, NoResp, NoResp) }
      [] a = "edgar" ->
           { Remote(TRUE, Resp("ok", <<eFiling>>), NoResp, NoResp),
             Remote(TRUE, Resp("network_error", <<>>), Resp("bad_status", <<>>), NoResp) }

RetryResponses ==
    { Llm("ok", <<aReuters, aSec>>), Llm("ok", <<aReuters, aReuters2>>),
      Llm("ok", <<aEmpty, aSec, aNoImp>>) }

RetryStart(c) == clock < Clock0 + MaxRetryStarts /\ ManualStart(1, c, TRUE)

\* the process is killed between two statements of the persist loop
Interrupt(r) ==
    LET run == runs[r]
        again == run.retry /\ run.processed = run.prev /\ run.filtered = run.prev_filtered
    IN  /\ run.pc \in {"persist", "create"}
        /\ runs' = [runs EXCEPT ![r] = IdleRun]
        /\ hist' = IF run.tracked
                   THEN [hist EXCEPT ![run.company] =
                           [valid |-> FALSE, processed |-> run.processed,
                            interrupted |-> TRUE, filtered |-> run.filtered,
                            store0 |-> IF again THEN run.prev_store0 ELSE run.store0]]
                   ELSE hist
        /\ UNCHANGED <<store, nextId, batch, clock, ad, cl, call>>

NextRetry ==
    \/ \E c \in {Acme} : RetryStart(c)
    \/ \E a \in Adapters : \E remote \in RetryRemotes(a) : AdapterComplete(1, a, remote)
    \/ Merge(1)
    \/ \E response \in RetryResponses : Classify(1, response)
    \/ PersistItem(1)
    \/ PersistCreate(1)
    \/ Interrupt(1)
    \/ ManualFinish(1)

SpecRetry == Init /\ [][NextRetry]_vars

RECURSIVE PersistAll(_, _, _)
\* the table after the persist loop has run from item i to the end without
\* interruption
PersistAll(rows, run, i) ==
    IF i > Len(run.processed) THEN rows
    ELSE LET item == run.processed[i]
             how == Lookup([run EXCEPT !.idx = i], rows)
             row == NewRow(1 + Cardinality(rows), CompanyById(run.company), item,
                           raw_by_url_get(run.filtered, item.url), 0)
         IN  IF how = "absent" /\ ~InsertRejected(item)
             THEN PersistAll(rows \cup {row}, run, i + 1)
             ELSE PersistAll(rows, run, i + 1)

\* a row without what depends on when it was inserted or read
Timeless(row) == [row EXCEPT !.id = 0, !.published_at = 0, !.fetched_at = 0,
                             !.is_read = FALSE, !.is_starred = FALSE]
RowsOf(rows, company_id) == {Timeless(row) : row \in {x \in rows : x.company = company_id}}

Retried(run) ==
    /\ run.pc = "done" /\ run.retry
    /\ run.processed = run.prev /\ run.filtered = run.prev_filtered

\* C18: a run that repeats an interrupted run with the same classified
\* items ends with the rows an uninterrupted run would have left (times of
\* insertion aside), one row per key, and returns the number of rows the
\* interrupted run had not yet inserted
C18_RetryAfterInterruptIsSafe ==
    \A r \in DOMAIN runs :
        Retried(runs[r]) =>
            LET run == runs[r]
                expected == PersistAll(run.prev_store0, run, 1)
            IN  /\ RowsOf(store, run.company) = RowsOf(expected, run.company)
                /\ \A x, y \in store :
                      (x.company = y.company /\ x.url_hash = y.url_hash) => x = y
                /\ run.result = Cardinality(expected) - Cardinality(run.store0)

C18_Witness ==
    \E r \in DOMAIN runs :
        /\ Retried(runs[r])
        /\ Cardinality(runs[r].store0) = 1
        /\ Cardinality(runs[r].store0) > Cardinality(runs[r].prev_store0)
        /\ runs[r].result = 1
        /\ Cardinality(store) = 2

\* C19: a run calls the classifier at most once, with all three adapter
\* futures finished and a non-empty pre-filtered list; a run that ends
\* without the call had nothing left after the merge or the pre-filter,
\* returns 0 and has inserted nothing
C19_ClassifierOnceAfterAdapters ==
    \A r \in DOMAIN runs :
        LET run == runs[r] IN
        /\ run.classifier_calls <= 1
        /\ run.pc = "fanout" => run.classifier_calls = 0
        /\ run.pc = "classify" =>
              /\ run.classifier_calls = 1
              /\ \A a \in Adapters : run.out[a].state = "finished"
        /\ run.classifier_calls = 1 => run.filtered # <<>>
        /\ (run.pc = "done" /\ run.classifier_calls = 0) =>
              /\ run.filtered = <<>>
              /\ run.result = 0
              /\ run.inserted = {}
              /\ run.tracked => Added(run) = {}

C19_Witness ==
    \E r \in DOMAIN runs :
        /\ runs[r].pc = "done"
        /\ runs[r].classifier_calls = 0
        /\ runs[r].deduped # <<>>
        /\ runs[r].filtered = <<>>
        /\ store # {}

\* the runs of the batch in progress, and their adapter calls in progress
InProgress == {i \in Futures : batch.futures[i].state = "running"}
Outstanding(run) ==
    IF run.pc = "fanout" THEN {a \in Adapters : run.out[a].state = "pending"} ELSE {}
OutstandingCalls == SeqSum([r \in DOMAIN runs |-> Cardinality(Outstanding(runs[r]))])

\* C20: during fetch_news_for_companies at most max_workers runs are in
\* progress, each with at most 3 adapter calls in progress, so at most
\* 3 * max_workers adapter calls are outstanding
C20_BoundedFanout ==
    batch.pc = "running" =>
        /\ Cardinality(InProgress) <= batch.max_workers
        /\ Cardinality(Busy) <= batch.max_workers
        /\ \A r \in DOMAIN runs : Cardinality(Outstanding(runs[r])) <= Cardinality(Adapters)
        /\ OutstandingCalls <= Cardinality(Adapters) * batch.max_workers

C20_Witness ==
    /\ batch.pc = "running"
    /\ batch.max_workers = 1
    /\ Cardinality(InProgress) = 1
    /\ \E i \in Futures : batch.futures[i].state = "queued"
    /\ \E r \in DOMAIN runs : runs[r].pc = "idle"
    /\ OutstandingCalls = Cardinality(Adapters)

(***************************************************************************)
(* The liveness specification: every step of a run that is enabled is      *)
(* eventually taken.  A remote service that never responds makes an        *)
(* adapter request end with its timeout (requests' timeout=15 / 30, the    *)
(* "timeout" answer); the classifier call is made without a timeout, so it *)
(* ends only when the service answers.                                     *)
(***************************************************************************)
MaxLiveStarts == 1

LiveRemotes(a) ==
    CASE a = "google_news" ->
           { Remote(TRUE, Resp("ok", <<gDirect>>), Resp("timeout", <<>>), NoResp),
             Remote(TRUE, Resp("timeout", <<>>), Resp("timeout", <<>>), NoResp) }
      [] a = "tavily" ->
           { Remote(TRUE, Resp("timeout", <<>>), NoResp, NoResp),
             Remote(TRUE, Resp("ok", <<tSame, tJunk>>), NoResp, NoResp) }
      [] a = "edgar" ->
           { Remote(TRUE, Resp("ok", <<eFiling>>), NoResp, NoResp),
             Remote(TRUE, Resp("timeout", <<>>), Resp("timeout", <<>>), NoResp) }

LiveStart(c) == clock < Clock0 + MaxLiveStarts /\ ManualStart(1, c, TRUE)

\* client.models.generate_content(model=..., contents=prompt) on a service
\* that never responds: the thread stays in the call
ClassifierNeverAnswers(r) ==
    /\ runs[r].pc = "classify"
    /\ runs' = [runs EXCEPT ![r].pc = "blocked"]
    /\ UNCHANGED <<store, nextId, batch, clock, hist, ad, cl, call>>

NextLive ==
    \/ \E c \in SeqCompanies : LiveStart(c)
    \/ \E a \in Adapters : \E remote \in LiveRemotes(a) : AdapterComplete(1, a, remote)
    \/ Merge(1)
    \/ \E response \in RetryResponses : Classify(1, response)
    \/ ClassifierNeverAnswers(1)
    \/ PersistItem(1)
    \/ PersistCreate(1)
    \/ ManualFinish(1)

SpecLive == Init /\ [][NextLive]_vars /\ WF_vars(NextLive)

\* C21: every run that has started eventually returns (or raises)
C21_RunsEventuallyReturn ==
    (runs[1].pc = "fanout") ~> (runs[1].pc \in {"done", "raised"})

\* what the call was given
RawIsTimestamp == call.raw_item.published_date.kind = "datetime"
AiDateParses ==
    /\ call.ai_item.published_date.kind = "str"
    /\ call.ai_item.published_date.fmt \in {"ymd", "iso", "isoz"}
RawStringParses ==
    /\ call.raw_item.published_date.kind = "str"
    /\ call.raw_item.published_date.fmt \in {"iso", "isoz", "ymd", "rfc822"}

MaxStoreStarts == 2

gNewsB  == Wire(UrlGoogleB, <<"Acme", "rumour">>, "", <<>>, NoDate, PubBlack, "")
aReutersUpper == Elem(UrlReutersUpper, TRUE, "Acme wins deal", "high", "M&A", "Reuters",
                      DateStr("ymd", 5))
aGoogleB  == Elem(UrlGoogleB, TRUE, "Acme rumour", "low", "other", Missing, NoDate)
aGoogle   == Elem(UrlGoogle, TRUE, "ACME up", "low", "other", Missing, NoDate)
aBlack    == Elem(UrlBlack, TRUE, "Acme rumour", "low", "other", "x", NoDate)

StoreRemotes(a) ==
    CASE a = "google_news" ->
           { Remote(TRUE, Resp("ok", <<gDirect>>), Resp("ok", <<gNewsB>>), NoResp),
             Remote(TRUE, Resp("ok", <<gNews>>), Resp("ok", <<>>), NoResp) }
      [] a = "tavily" ->
           { Remote(FALSE, NoResp, NoResp, NoResp),
             Remote(TRUE, Resp("ok", <<tBlack>>), NoResp, NoResp) }
      [] a = "edgar" -> { Remote(TRUE, Resp("ok", <<eFiling>>), NoResp, NoResp) }

StoreResponses ==
    { Llm("ok", <<aReuters, aReutersUpper>>), Llm("ok", <<aGoogleB, aWire>>),
      Llm("ok", <<aGoogle, aBlack>>), Llm("ok", <<aNoHead, aSec>>),
      Llm("ok", <<aNoImp, aSec>>), Llm("ok", <<aSec, aReuters>>) }

StoreStart(c) == clock < Clock0 + MaxStoreStarts /\ ManualStart(1, c, TRUE)

NextStore ==
    \/ \E c \in {Acme} : StoreStart(c)
    \/ \E a \in Adapters : \E remote \in StoreRemotes(a) : AdapterComplete(1, a, remote)
    \/ Merge(1)
    \/ \E response \in StoreResponses : Classify(1, response)
    \/ PersistItem(1)
    \/ PersistCreate(1)
    \/ ManualFinish(1)

SpecStore == Init /\ [][NextStore]_vars

\* two URL strings with the same normal form: they differ at most in the
\* case of the host
SameNormalForm(u, v) ==
    u.type = v.type /\ LowerSeq(u.netloc) = LowerSeq(v.netloc) /\ u.path = v.path

\* C25: stored rows of one company whose source URLs have the same normal form
\* have the same fingerprint, and are one row
C25_OneRowPerNormalizedUrl ==
    \A x, y \in store :
        x.company = y.company /\ SameNormalForm(x.source_url, y.source_url)
            => x.url_hash = y.url_hash /\ x = y

\* the rows a run adds, each with the raw item the persist loop matched to it
WellFormed(url) == url.type = "str" /\ url.netloc # <<>>
RawOf(run, row) == raw_by_url_get(run.filtered, row.source_url)

\* C26: the publisher domain of every row a run adds is the bare domain of
\* the raw item's publisher URL when it has one, else the bare domain of the
\* row's own URL, and is not empty when that URL is well formed
C26_PublisherDomainResolved ==
    \A r \in DOMAIN runs :
        Storing(runs[r]) =>
            \A row \in Added(runs[r]) :
                /\ row.publisher_domain =
                       IF Truthy(RawOf(runs[r], row).publisher_url)
                       THEN _extract_domain(RawOf(runs[r], row).publisher_url)
                       ELSE _extract_domain(row.source_url)
                /\ WellFormed(row.source_url) => row.publisher_domain # <<>>

\* C27: no row a run adds has a source URL or a publisher domain of a
\* domain on the blacklist the run loaded
C27_NoBlacklistedRowStored ==
    \A r \in DOMAIN runs :
        Storing(runs[r]) =>
            \A row \in Added(runs[r]) :
                /\ _extract_domain(row.source_url) \notin Blacklist
                /\ row.publisher_domain \notin Blacklist

\* the table refuses the item: the defaults raise, or the insert is rejected
StoreFails(item) == DefaultsRaise(item) \/ InsertRejected(item)
Storable(item) == Truthy(item.url) /\ item.url.type = "str" /\ ~StoreFails(item)

\* C28: an item whose get_or_create raises does not end the run: the run
\* never raises from the store, and a run that has returned has a row for
\* every other item of the classifier's list and returns the number of rows
\* it inserted
C28_StoreFailureIsPerItem ==
    \A r \in DOMAIN runs :
        /\ runs[r].exc # "store"
        /\ runs[r].tracked /\ runs[r].pc = "done" =>
              /\ \A i \in 1..Len(runs[r].processed) :
                     Storable(runs[r].processed[i]) =>
                         RowExists(store, runs[r].company, Sha256(runs[r].processed[i].url))
              /\ runs[r].result = Cardinality(Added(runs[r]))
C28_Witness ==
    \E r \in DOMAIN runs :
        /\ runs[r].tracked /\ runs[r].pc = "done" /\ runs[r].result = 1
        /\ \E i, j \in 1..Len(runs[r].processed) :
               /\ i < j
               /\ StoreFails(runs[r].processed[i])
               /\ \E row \in Added(runs[r]) :
                      row.url_hash = Sha256(runs[r].processed[j].url)

(***************************************************************************)
(* The command-level specification: runs of the fetch_news management      *)
(* command over a database that holds two companies of one organization.   *)
(* A run without --dry-run goes through fetch_news_for_companies.          *)
(***************************************************************************)
MaxCommands == 2

\* fetch_news_for_companies(companies, max_workers=4)
DefaultMaxWorkers == 4

OrgSlug == "bireme"
CommandDb == <<[company |-> Acme, slug |-> "acme", status |-> "long_book"],
               [company |-> BP, slug |-> "bp", status |-> "watchlist"]>>

\* --org, --company, --dry-run, --all-statuses, --clear
CommandOptions ==
    [org : {"", OrgSlug, "nope"}, company : {"", "acme", "nope"},
     dry_run : BOOLEAN, all_statuses : BOOLEAN, clear : BOOLEAN]

\* the company queryset of handle: status, organization and slug filters
CommandCompanies(options) ==
    LET kept == SelectSeq(CommandDb, LAMBDA e :
                   /\ options.all_statuses \/ e.status \in {"long_book", "short_book"}
                   /\ options.company = "" \/ e.slug = options.company)
    IN  [i \in 1..Len(kept) |-> kept[i].company.id]

\* handle up to the call of fetch_news_for_companies, or to its return when it
\* does not fetch: --clear deletes every row first; then an unknown --org and
\* an empty queryset return, --dry-run lists the companies, and otherwise one
\* future per company is submitted
Handle(options) ==
    LET companies == CommandCompanies(options)
        outcome == IF options.org \notin {"", OrgSlug} THEN "org_not_found"
                   ELSE IF companies = <<>> THEN "no_companies"
                   ELSE IF options.dry_run THEN "dry_run"
                   ELSE "fetching"
    IN  /\ call.pc \in {"idle", "done"}
        /\ batch.pc = "idle"
        /\ clock < Clock0 + MaxCommands
        /\ clock' = clock + 1
        /\ store' = IF options.clear THEN {} ELSE store
        /\ batch' = IF outcome = "fetching"
                    THEN [pc |-> "running", companies |-> companies,
                          max_workers |-> DefaultMaxWorkers,
                          futures |-> [i \in 1..Len(companies) |-> Queued],
                          total |-> 0, errors |-> <<>>]
                    ELSE batch
        /\ call' = [pc |-> IF outcome = "fetching" THEN "fetching" ELSE "done",
                    fn |-> "fetch_news", options |-> options, rows0 |-> store,
                    outcome |-> outcome]
        /\ UNCHANGED <<nextId, runs, hist, ad, cl>>

\* fetch_news_for_companies has returned: the totals are written out
HandleReturn ==
    /\ call.pc = "fetching"
    /\ batch.pc = "returned"
    /\ batch' = IdleBatch
    /\ call' = [call EXCEPT !.pc = "done"]
    /\ UNCHANGED <<store, nextId, runs, clock, hist, ad, cl>>

NextCommand ==
    \/ \E options \in CommandOptions : Handle(options)
    \/ \E r \in DOMAIN runs : WorkerStart(r)
    \/ \E r \in DOMAIN runs : \E a \in Adapters : \E remote \in BatchRemotes(a) :
          AdapterComplete(r, a, remote)
    \/ \E r \in DOMAIN runs : Merge(r)
    \/ \E r \in DOMAIN runs : \E response \in BatchResponses : Classify(r, response)
    \/ \E r \in DOMAIN runs : PersistItem(r)
    \/ \E r \in DOMAIN runs : PersistCreate(r)
    \/ \E r \in DOMAIN runs : WorkerFinish(r)
    \/ \E i \in DOMAIN batch.futures : Collect(i)
    \/ BatchReturn
    \/ HandleReturn

SpecCommand == InitBatch /\ [][NextCommand]_vars

\* C30: after a run of the command with --dry-run, whatever the other
\* options, nothing was fetched and the stored rows are those from before
C30_DryRunChangesNothing ==
    call.pc = "done" /\ call.options.dry_run =>
        /\ store = call.rows0
        /\ batch.pc = "idle"
        /\ \A r \in DOMAIN runs : runs[r].pc = "idle"

====
